---- MODULE Spec2Model ----
(***************************************************************************)
(* Digital Lab Record Entry Management System (src/app.py).                *)
(*                                                                         *)
(* The state is the two tables of database.db (students, entries), the     *)
(* AUTOINCREMENT counters of both tables, the per-browser Flask session,   *)
(* the calendar date (date.today()) and the response of the last request   *)
(* (flash notice, redirect target, rendered rows).  Every route handler is *)
(* one atomic action; the time of day it reads from datetime.now() is an   *)
(* input of the handler.                                                   *)
(*                                                                         *)
(* Text values are sequences of one-character strings, so that strip()     *)
(* and upper() are computed character by character.                        *)
(***************************************************************************)
EXTENDS Integers, Sequences, FiniteSets, TLC

\* ---------------------------------------------------------------- bounds
MaxStudentId == 2      \* students ever registered
MaxEntryId   == 2      \* entries ever created
MaxDay       == 2      \* calendar days observed

\* ------------------------------------------------------------- constants
NULL == 0 - 1                        \* SQL NULL in entries.time_out
ADMIN_USERNAME == "admin"
ADMIN_PASSWORD == "admin123"
DEFAULT_LAB == <<"C", "L">>          \* 'Computer Lab'
DASH_LIMIT == 10                     \* LIMIT 10 of the dashboard
LIST_LIMIT == 200                    \* LIMIT 200 of the entries listing

Days    == 1..MaxDay

\* ---------------------------------------------------------- request inputs
Whitespace == {" "}
NoText     == << >>

\* form fields as typed: blank, padded, lower and upper case
\* reg_no of the check-out form
ExitInputs  == { <<"a">>, <<" ", "B">> }
\* (reg_no, system_no) of the check-in form
EntryInputs == { << <<"a">>, <<"1", " ">> >>,
                 << <<"a">>, <<"2">> >>,
                 << <<" ", "B">>, <<"1", " ">> >>,
                 << <<" ", "B">>, <<"2">> >> }
\* forms with a field left blank
BlankExitInputs  == { <<" ">> }
BlankEntryInputs == { << <<" ">>, <<"2">> >>, << <<"a">>, <<" ">> >> }
\* (name, reg_no, dept) of the registration form
AddInputs  == { << <<"X">>, <<"a">>, <<"D">> >>,
                << <<"X">>, <<"A", " ">>, <<"D">> >>,
                << <<" ", "Y">>, <<" ", "b">>, <<"D">> >> }
BlankAddInputs == { << <<" ">>, <<"a">>, <<"D">> >>,
                    << <<"X">>, <<" ">>, <<"D">> >>,
                    << <<"X">>, <<"a">>, << >> >> }
\* browsers holding a session cookie
Clients    == { 1 }
\* readings of datetime.now().strftime("%H:%M:%S")
Times      == { 0 }
\* (method, username, password) of a request to /admin/login
LoginInputs == { <<"GET", "", "">>,
                 <<"POST", "admin", "admin123">>,
                 <<"POST", "Admin", "admin123">>,
                 <<"POST", "admin", "">> }
FilterDates == {0} \cup Days         \* 0 stands for an absent filter_date

\* ------------------------------------------------------------ text helpers
RECURSIVE LStrip(_)
LStrip(s) ==
    IF s = << >> THEN s
    ELSE IF Head(s) \in Whitespace THEN LStrip(Tail(s)) ELSE s

RECURSIVE RStrip(_)
RStrip(s) ==
    IF s = << >> THEN s
    ELSE IF s[Len(s)] \in Whitespace THEN RStrip(SubSeq(s, 1, Len(s) - 1)) ELSE s

Strip(s) == RStrip(LStrip(s))

UpperChar(c) ==
    CASE c = "a" -> "A"
      [] c = "b" -> "B"
      [] OTHER   -> c

Upper(s) == [i \in 1..Len(s) |-> UpperChar(s[i])]

\* the registration number trimmed but not upper-cased
NormRegNoNoUpper(raw) == Strip(raw)

\* request.form.get("reg_no", "").strip().upper()
NormRegNo(raw) == Upper(Strip(raw))

NormSystemNo(raw) == Strip(raw)

\* ------------------------------------------------------------------- state
VARIABLES students, entries, student_seq, entry_seq, session, today, resp,
          threads

vars == <<students, entries, student_seq, entry_seq, session, today, resp,
          threads>>

db == <<students, entries, student_seq, entry_seq>>

NoResp ==
    [ op        |-> "none",
      status    |-> "none",
      category  |-> "none",
      redirect  |-> "none",
      system_no |-> NoText,
      name      |-> NoText,
      field     |-> "none",
      eid       |-> 0,
      time      |-> NULL,
      counts    |-> << >>,
      rows      |-> << >> ]

\* worker threads of the server, each serving one request at a time
Workers == { 1, 2 }

\* a thread between requests; otherwise pc names the statement it runs next
\* and the other fields are the locals of the handler
Idle ==
    [ pc |-> "idle", student_id |-> 0, name |-> NoText, system_no |-> NoText,
      date |-> 0, eid |-> 0 ]

Init ==
    /\ students = {}
    /\ entries = {}
    /\ student_seq = 0
    /\ entry_seq = 0
    /\ session = [c \in Clients |-> FALSE]
    /\ today = 1
    /\ resp = NoResp
    /\ threads = [t \in Workers |-> Idle]

\* ------------------------------------------------------------ auth helpers
\* the session test written as "is not False"
is_logged_in_unless_false(c) == session[c] \in BOOLEAN

\* session.get("admin_logged_in") is True
is_logged_in(c) == session[c] = TRUE

LoginRedirect(op) ==
    [NoResp EXCEPT !.op = op, !.status = "LoginRequired",
                   !.category = "warning", !.redirect = "admin_login"]

\* login_required: the wrapped handler runs only when the flag is set
login_required(op, c, body) ==
    IF ~ is_logged_in(c)
    THEN /\ resp' = LoginRedirect(op)
         /\ UNCHANGED <<db, session, today, threads>>
    ELSE body

\* ------------------------------------------------------------------ queries
StudentByRegNo(S, reg_no) == {s \in S : s.reg_no = reg_no}

StudentById(S, id) == {s \in S : s.id = id}

\* the workstation query with "time_out IS NOT NULL"
SysBusyClosed(E, S, system_no, d) ==
    { [id |-> p[1].id, name |-> p[2].name] :
        p \in { q \in E \X S :
                   /\ q[1].student_id = q[2].id
                   /\ q[1].system_no = system_no
                   /\ q[1].date = d
                   /\ q[1].time_out # NULL } }

\* the workstation query joining every student to every entry (no ON clause)
SysBusyCrossJoin(E, S, system_no, d) ==
    { [id |-> p[1].id, name |-> p[2].name] :
        p \in { q \in E \X S :
                   /\ q[1].system_no = system_no
                   /\ q[1].date = d
                   /\ q[1].time_out = NULL } }

\* SELECT e.id, s.name FROM entries e JOIN students s ON e.student_id = s.id
\* WHERE e.system_no = ? AND e.date = ? AND e.time_out IS NULL
SysBusy(E, S, system_no, d) ==
    { [id |-> p[1].id, name |-> p[2].name] :
        p \in { q \in E \X S :
                   /\ q[1].student_id = q[2].id
                   /\ q[1].system_no = system_no
                   /\ q[1].date = d
                   /\ q[1].time_out = NULL } }

\* the student query with "time_out IS NOT NULL"
OpenEntryClosed(E, student_id, d) ==
    {e \in E : e.student_id = student_id /\ e.date = d /\ e.time_out # NULL}

\* the student query without "time_out IS NULL"
OpenEntryAnyTimeOut(E, student_id, d) ==
    {e \in E : e.student_id = student_id /\ e.date = d}

\* the student query without "date = ?"
OpenEntryAnyDate(E, student_id, d) ==
    {e \in E : e.student_id = student_id /\ e.time_out = NULL}

\* SELECT * FROM entries WHERE student_id = ? AND date = ? AND time_out IS NULL
OpenEntry(E, student_id, d) ==
    {e \in E : e.student_id = student_id /\ e.date = d /\ e.time_out = NULL}

\* rows of "entries e JOIN students s ON e.student_id = s.id", optionally
\* restricted to one date (filter 0: no WHERE clause)
Joined(E, S, filter) ==
    { e \in E : /\ \E s \in S : s.id = e.student_id
                /\ (filter # 0 => e.date = filter) }

SetMax(ids) == CHOOSE m \in ids : \A k \in ids : k <= m

\* the rows of E, whose ids lie in lo..hi, greatest id first (id is the
\* primary key)
RECURSIVE DescBetween(_, _, _)
DescBetween(E, lo, hi) ==
    IF E = {} THEN << >>
    ELSE IF lo = hi THEN <<CHOOSE e \in E : TRUE>>
    ELSE LET mid == (lo + hi) \div 2
         IN  DescBetween({e \in E : e.id > mid}, mid + 1, hi)
                 \o DescBetween({e \in E : e.id <= mid}, lo, mid)

\* ORDER BY e.id DESC
OrderByIdDesc(E) ==
    IF E = {} THEN << >> ELSE DescBetween(E, 1, SetMax({x.id : x \in E}))

\* the last n rows instead of the first n
LimitLast(rows, n) ==
    IF Len(rows) <= n THEN rows ELSE SubSeq(rows, Len(rows) - n + 1, Len(rows))

\* LIMIT n
Limit(rows, n) == IF Len(rows) <= n THEN rows ELSE SubSeq(rows, 1, n)

\* SELECT e.id, s.name, s.reg_no, s.dept, e.lab_name, e.system_no,
\*        e.time_in, e.time_out, e.date
ListRow(e, S) ==
    LET s == CHOOSE x \in S : x.id = e.student_id
    IN  [id |-> e.id, name |-> s.name, reg_no |-> s.reg_no, dept |-> s.dept,
         lab_name |-> e.lab_name, system_no |-> e.system_no,
         time_in |-> e.time_in, time_out |-> e.time_out, date |-> e.date]

\* SELECT s.name, s.reg_no, s.dept, e.lab_name, e.system_no,
\*        e.time_in, e.time_out, e.date
ExportRow(e, S) ==
    LET s == CHOOSE x \in S : x.id = e.student_id
    IN  <<s.name, s.reg_no, s.dept, e.lab_name, e.system_no,
          e.time_in, e.time_out, e.date>>

ListRows(E, S, filter) ==
    LET sorted == OrderByIdDesc(Joined(E, S, filter))
    IN  [i \in 1..Len(sorted) |-> ListRow(sorted[i], S)]

ExportRows(E, S, filter) ==
    LET sorted == OrderByIdDesc(Joined(E, S, filter))
    IN  [i \in 1..Len(sorted) |-> ExportRow(sorted[i], S)]

\* ------------------------------------------------------------ table updates
\* the insert replacing the table by the new row
InsertEntryAlone(E, id, student_id, system_no, t, d) ==
    { [id |-> id, student_id |-> student_id, lab_name |-> DEFAULT_LAB,
       system_no |-> system_no, time_in |-> t, time_out |-> NULL,
       date |-> d] }

\* INSERT INTO entries (student_id, lab_name, system_no, time_in, date)
InsertEntry(E, id, student_id, system_no, t, d) ==
    E \cup { [id |-> id, student_id |-> student_id, lab_name |-> DEFAULT_LAB,
              system_no |-> system_no, time_in |-> t, time_out |-> NULL,
              date |-> d] }

\* the update keyed by student_id instead of id
SetTimeOutByStudent(E, id, t) ==
    { IF e.student_id = id THEN [e EXCEPT !.time_out = t] ELSE e : e \in E }

\* UPDATE entries SET time_out = ? WHERE id = ?
SetTimeOut(E, id, t) ==
    { IF e.id = id THEN [e EXCEPT !.time_out = t] ELSE e : e \in E }

\* reg_no TEXT NOT NULL UNIQUE
RegNoTaken(S, reg_no) == \E s \in S : s.reg_no = reg_no

\* the insert taking the id after the greatest id in the table, as a
\* row id without AUTOINCREMENT does
InsertStudentAfterMax(S, id, name, reg_no, dept) ==
    S \cup { [id |-> IF S = {} THEN 1 ELSE SetMax({s.id : s \in S}) + 1,
              name |-> name, reg_no |-> reg_no, dept |-> dept] }

\* INSERT INTO students (name, reg_no, dept); id is the AUTOINCREMENT value
InsertStudent(S, id, name, reg_no, dept) ==
    S \cup { [id |-> id, name |-> name, reg_no |-> reg_no, dept |-> dept] }

\* the cascade without its WHERE clause
DeleteEntriesAll(E, student_id) == {}

\* DELETE FROM entries WHERE student_id = ?
DeleteEntriesOf(E, student_id) == {e \in E : e.student_id # student_id}

\* DELETE FROM students WHERE id = ?
DeleteStudentRow(S, student_id) == {s \in S : s.id # student_id}

\* ------------------------------------------------------------ public routes
\* the two conflict checks in the opposite order
EntryOutcomeStudentFirst(sys_busy, open_entry) ==
    IF open_entry # {} THEN "AlreadyCheckedIn"
    ELSE IF sys_busy # {} THEN "WorkstationOccupied"
    ELSE "Ok"

\* outcome of the two conflict queries of check-in, in the order of the code
EntryOutcome(sys_busy, open_entry) ==
    IF sys_busy # {} THEN "WorkstationOccupied"
    ELSE IF open_entry # {} THEN "AlreadyCheckedIn"
    ELSE "Ok"

\* flash(...) and redirect(url_for("index")) of the two public handlers
PublicResp(op, status, category) ==
    [NoResp EXCEPT !.op = op, !.status = status, !.category = category,
                   !.redirect = "index"]

\* POST /entry, the clock reading now when the request is served
student_entry_at(raw_reg_no, raw_system_no, now) ==
    LET reg_no    == NormRegNo(raw_reg_no)
        system_no == NormSystemNo(raw_system_no)
        found     == StudentByRegNo(students, reg_no)
    IN
    /\ UNCHANGED <<students, student_seq, session, today, threads>>
    /\ IF reg_no = NoText
       THEN /\ resp' = [PublicResp("checkIn", "ValidationError", "danger") EXCEPT
                            !.field = "reg_no"]
            /\ UNCHANGED <<entries, entry_seq>>
       ELSE IF system_no = NoText
       THEN /\ resp' = [PublicResp("checkIn", "ValidationError", "danger") EXCEPT
                            !.field = "system_no"]
            /\ UNCHANGED <<entries, entry_seq>>
       ELSE IF found = {}
       THEN /\ resp' = PublicResp("checkIn", "NotFound", "danger")
            /\ UNCHANGED <<entries, entry_seq>>
       ELSE \E student \in found :
            LET sys_busy   == SysBusy(entries, students, system_no, today)
                open_entry == OpenEntry(entries, student.id, today)
                outcome    == EntryOutcome(sys_busy, open_entry)
            IN
            CASE outcome = "WorkstationOccupied" ->
                    \E b \in sys_busy :
                    /\ resp' = [PublicResp("checkIn", "WorkstationOccupied", "warning")
                                    EXCEPT !.system_no = system_no, !.name = b.name]
                    /\ UNCHANGED <<entries, entry_seq>>
              [] outcome = "AlreadyCheckedIn" ->
                    \E o \in open_entry :
                    /\ resp' = [PublicResp("checkIn", "AlreadyCheckedIn", "warning")
                                    EXCEPT !.system_no = o.system_no,
                                           !.name = student.name]
                    /\ UNCHANGED <<entries, entry_seq>>
              [] OTHER ->
                    /\ entry_seq < MaxEntryId
                    /\ entry_seq' = entry_seq + 1
                    /\ entries' = InsertEntry(entries, entry_seq + 1, student.id,
                                              system_no, now, today)
                    /\ resp' = [PublicResp("checkIn", "Ok", "success") EXCEPT
                                    !.system_no = system_no, !.name = student.name,
                                    !.eid = entry_seq + 1, !.time = now]

\* POST /entry
student_entry(raw_reg_no, raw_system_no) ==
    \E now \in Times : student_entry_at(raw_reg_no, raw_system_no, now)

\* POST /exit, the clock reading now when the request is served
student_exit_at(raw_reg_no, now) ==
    LET reg_no == NormRegNo(raw_reg_no)
        found  == StudentByRegNo(students, reg_no)
    IN
    /\ UNCHANGED <<students, student_seq, entry_seq, session, today, threads>>
    /\ IF reg_no = NoText
       THEN /\ resp' = [PublicResp("checkOut", "ValidationError", "danger") EXCEPT
                            !.field = "reg_no"]
            /\ UNCHANGED entries
       ELSE IF found = {}
       THEN /\ resp' = PublicResp("checkOut", "NotFound", "danger")
            /\ UNCHANGED entries
       ELSE \E student \in found :
            LET open_entry == OpenEntry(entries, student.id, today)
            IN
            IF open_entry = {}
            THEN /\ resp' = PublicResp("checkOut", "NoOpenEntry", "info")
                 /\ UNCHANGED entries
            ELSE \E o \in open_entry :
                 /\ entries' = SetTimeOut(entries, o.id, now)
                 /\ resp' = [PublicResp("checkOut", "Ok", "success") EXCEPT
                                 !.name = student.name, !.eid = o.id,
                                 !.time = now]

\* POST /exit
student_exit(raw_reg_no) ==
    \E now \in Times : student_exit_at(raw_reg_no, now)

\* ------------------------------------------------------------- admin routes
AdminResp(op, status, category, redirect) ==
    [NoResp EXCEPT !.op = op, !.status = status,
                   !.category = category, !.redirect = redirect]

\* GET|POST /admin/login
admin_login(c, method, username, password) ==
    /\ UNCHANGED <<db, today, threads>>
    /\ IF is_logged_in(c)
       THEN /\ resp' = AdminResp("login", "AlreadyLoggedIn", "none", "admin_dashboard")
            /\ UNCHANGED session
       ELSE IF method = "POST"
       THEN IF username = ADMIN_USERNAME /\ password = ADMIN_PASSWORD
            THEN /\ session' = [session EXCEPT ![c] = TRUE]
                 /\ resp' = AdminResp("login", "Ok", "success", "admin_dashboard")
            ELSE /\ resp' = AdminResp("login", "InvalidCredentials", "danger", "none")
                 /\ UNCHANGED session
       ELSE /\ resp' = AdminResp("login", "Form", "none", "none")
            /\ UNCHANGED session

\* GET /admin/logout
admin_logout(c) ==
    /\ session' = [session EXCEPT ![c] = FALSE]
    /\ resp' = AdminResp("logout", "Ok", "info", "admin_login")
    /\ UNCHANGED <<db, today, threads>>

\* SELECT COUNT(*) ... of the dashboard
\* the "inside now" count without its date condition
DashboardCountsAnyDate(E, S, d) ==
    << Cardinality({e \in E : e.date = d}),
       Cardinality({e \in E : e.time_out = NULL}),
       Cardinality(S) >>

\* total_today, inside_now, total_students
DashboardCounts(E, S, d) ==
    << Cardinality({e \in E : e.date = d}),
       Cardinality({e \in E : e.date = d /\ e.time_out = NULL}),
       Cardinality(S) >>

\* GET /admin/dashboard
admin_dashboard(c) ==
    login_required("dashboard", c,
        /\ resp' = [AdminResp("dashboard", "Ok", "none", "none") EXCEPT
                        !.counts = DashboardCounts(entries, students, today),
                        !.rows = Limit(ListRows(entries, students, today), DASH_LIMIT)]
        /\ UNCHANGED <<db, session, today, threads>>)

\* GET /admin/entries?filter_date=
admin_entries(c, filter_date) ==
    login_required("listEntries", c,
        /\ resp' = [AdminResp("listEntries", "Ok", "none", "none") EXCEPT
                        !.rows = IF filter_date # 0
                                 THEN ListRows(entries, students, filter_date)
                                 ELSE Limit(ListRows(entries, students, 0), LIST_LIMIT)]
        /\ UNCHANGED <<db, session, today, threads>>)

\* byte value of a character (BINARY collation of TEXT columns)
CharCode(c) ==
    CASE c = " " -> 32
      [] c = "1" -> 49
      [] c = "2" -> 50
      [] c = "A" -> 65
      [] c = "B" -> 66
      [] c = "C" -> 67
      [] c = "D" -> 68
      [] c = "L" -> 76
      [] c = "X" -> 88
      [] c = "Y" -> 89
      [] c = "a" -> 97
      [] c = "b" -> 98

RECURSIVE TextLeq(_, _)
TextLeq(a, b) ==
    IF a = << >> THEN TRUE
    ELSE IF b = << >> THEN FALSE
    ELSE IF Head(a) = Head(b) THEN TextLeq(Tail(a), Tail(b))
    ELSE CharCode(Head(a)) < CharCode(Head(b))

\* SELECT * FROM students ORDER BY name (equal names in rowid order)
RECURSIVE OrderByName(_)
OrderByName(S) ==
    IF S = {} THEN << >>
    ELSE LET first == CHOOSE s \in S : \A x \in S :
                          \/ (s.name # x.name /\ TextLeq(s.name, x.name))
                          \/ (s.name = x.name /\ s.id <= x.id)
         IN  <<first>> \o OrderByName(S \ {first})

\* GET /admin/students
admin_students(c) ==
    login_required("listStudents", c,
        /\ resp' = [AdminResp("listStudents", "Ok", "none", "none") EXCEPT
                        !.rows = OrderByName(students)]
        /\ UNCHANGED <<db, session, today, threads>>)

\* POST /admin/students/add
admin_add_student(c, raw_name, raw_reg_no, raw_dept) ==
    LET name   == Strip(raw_name)
        reg_no == NormRegNo(raw_reg_no)
        dept   == Strip(raw_dept)
        base   == AdminResp("addStudent", "Ok", "success", "admin_students")
    IN
    login_required("addStudent", c,
        /\ UNCHANGED <<entries, entry_seq, session, today, threads>>
        /\ IF name = NoText \/ reg_no = NoText \/ dept = NoText
           THEN /\ resp' = [base EXCEPT !.status = "ValidationError", !.category = "danger"]
                /\ UNCHANGED <<students, student_seq>>
           ELSE IF RegNoTaken(students, reg_no)
           THEN /\ resp' = [base EXCEPT !.status = "DuplicateKey", !.category = "danger"]
                /\ UNCHANGED <<students, student_seq>>
           ELSE /\ student_seq < MaxStudentId
                /\ student_seq' = student_seq + 1
                /\ students' = InsertStudent(students, student_seq + 1, name, reg_no, dept)
                /\ resp' = [base EXCEPT !.name = name])

\* POST /admin/students/delete/<int:student_id>
admin_delete_student(c, student_id) ==
    LET student == StudentById(students, student_id)
    IN
    login_required("deleteStudent", c,
        /\ UNCHANGED <<student_seq, entry_seq, session, today, threads>>
        /\ IF student # {}
           THEN \E st \in student :
                /\ entries' = DeleteEntriesOf(entries, student_id)
                /\ students' = DeleteStudentRow(students, student_id)
                /\ resp' = [AdminResp("deleteStudent", "Ok", "success", "admin_students")
                                EXCEPT !.name = st.name]
           ELSE /\ resp' = AdminResp("deleteStudent", "NotFound", "danger", "admin_students")
                /\ UNCHANGED <<students, entries>>)

\* GET /admin/export?filter_date=
admin_export(c, filter_date) ==
    login_required("export", c,
        /\ resp' = [AdminResp("export", "Ok", "none", "none") EXCEPT
                        !.rows = ExportRows(entries, students, filter_date)]
        /\ UNCHANGED <<db, session, today, threads>>)

\* ------------------------------------- requests served by worker threads
\* Each request runs on its own connection in its own thread; between two
\* statements of one request the statements of another may run.  A SELECT
\* reads the committed store; a write and its commit take effect together.
Proceed(t, pc, student, system_no, d, eid) ==
    threads' = [threads EXCEPT ![t] =
                   [ pc |-> pc, student_id |-> student.id, name |-> student.name,
                     system_no |-> system_no, date |-> d, eid |-> eid ]]

Return(t) == threads' = [threads EXCEPT ![t] = Idle]

\* POST /entry: the form is read and the student looked up
entry_student(t, raw_reg_no, raw_system_no) ==
    LET reg_no    == NormRegNo(raw_reg_no)
        system_no == NormSystemNo(raw_system_no)
        found     == StudentByRegNo(students, reg_no)
    IN
    /\ threads[t].pc = "idle"
    /\ UNCHANGED <<db, session, today>>
    /\ IF reg_no = NoText
       THEN /\ resp' = [PublicResp("checkIn", "ValidationError", "danger") EXCEPT
                            !.field = "reg_no"]
            /\ Return(t)
       ELSE IF system_no = NoText
       THEN /\ resp' = [PublicResp("checkIn", "ValidationError", "danger") EXCEPT
                            !.field = "system_no"]
            /\ Return(t)
       ELSE IF found = {}
       THEN /\ resp' = PublicResp("checkIn", "NotFound", "danger")
            /\ Return(t)
       ELSE \E student \in found :
            /\ Proceed(t, "entry_sys_busy", student, system_no, 0, 0)
            /\ UNCHANGED resp

\* POST /entry: today is read and the workstation query run
entry_sys_busy(t) ==
    LET self     == threads[t]
        sys_busy == SysBusy(entries, students, self.system_no, today)
    IN
    /\ self.pc = "entry_sys_busy"
    /\ UNCHANGED <<db, session, today>>
    /\ IF sys_busy # {}
       THEN \E b \in sys_busy :
            /\ resp' = [PublicResp("checkIn", "WorkstationOccupied", "warning")
                            EXCEPT !.system_no = self.system_no, !.name = b.name]
            /\ Return(t)
       ELSE /\ threads' = [threads EXCEPT ![t].pc = "entry_open_entry",
                                          ![t].date = today]
            /\ UNCHANGED resp

\* POST /entry: the student query
entry_open_entry(t) ==
    LET self       == threads[t]
        open_entry == OpenEntry(entries, self.student_id, self.date)
    IN
    /\ self.pc = "entry_open_entry"
    /\ UNCHANGED <<db, session, today>>
    /\ IF open_entry # {}
       THEN \E o \in open_entry :
            /\ resp' = [PublicResp("checkIn", "AlreadyCheckedIn", "warning")
                            EXCEPT !.system_no = o.system_no,
                                   !.name = self.name]
            /\ Return(t)
       ELSE /\ threads' = [threads EXCEPT ![t].pc = "entry_insert"]
            /\ UNCHANGED resp

\* POST /entry: INSERT and commit
entry_insert(t, now) ==
    LET self == threads[t]
    IN
    /\ self.pc = "entry_insert"
    /\ entry_seq < MaxEntryId
    /\ entry_seq' = entry_seq + 1
    /\ entries' = InsertEntry(entries, entry_seq + 1, self.student_id,
                              self.system_no, now, self.date)
    /\ resp' = [PublicResp("checkIn", "Ok", "success") EXCEPT
                    !.system_no = self.system_no, !.name = self.name,
                    !.eid = entry_seq + 1, !.time = now]
    /\ Return(t)
    /\ UNCHANGED <<students, student_seq, session, today>>

\* POST /exit: the form is read and the student looked up
exit_student(t, raw_reg_no) ==
    LET reg_no == NormRegNo(raw_reg_no)
        found  == StudentByRegNo(students, reg_no)
    IN
    /\ threads[t].pc = "idle"
    /\ UNCHANGED <<db, session, today>>
    /\ IF reg_no = NoText
       THEN /\ resp' = [PublicResp("checkOut", "ValidationError", "danger") EXCEPT
                            !.field = "reg_no"]
            /\ Return(t)
       ELSE IF found = {}
       THEN /\ resp' = PublicResp("checkOut", "NotFound", "danger")
            /\ Return(t)
       ELSE \E student \in found :
            /\ Proceed(t, "exit_open_entry", student, NoText, 0, 0)
            /\ UNCHANGED resp

\* POST /exit: today is read and the student query run
exit_open_entry(t) ==
    LET self       == threads[t]
        open_entry == OpenEntry(entries, self.student_id, today)
    IN
    /\ self.pc = "exit_open_entry"
    /\ UNCHANGED <<db, session, today>>
    /\ IF open_entry = {}
       THEN /\ resp' = PublicResp("checkOut", "NoOpenEntry", "info")
            /\ Return(t)
       ELSE \E o \in open_entry :
            /\ threads' = [threads EXCEPT ![t].pc = "exit_update",
                                          ![t].date = today, ![t].eid = o.id]
            /\ UNCHANGED resp

\* POST /exit: UPDATE (of the row with that id, if it is still there) and
\* commit
exit_update(t, now) ==
    LET self == threads[t]
    IN
    /\ self.pc = "exit_update"
    /\ entries' = SetTimeOut(entries, self.eid, now)
    /\ resp' = [PublicResp("checkOut", "Ok", "success") EXCEPT
                    !.name = self.name, !.eid = self.eid, !.time = now]
    /\ Return(t)
    /\ UNCHANGED <<students, student_seq, entry_seq, session, today>>

\* POST /admin/students/delete/<id>: the login test and the SELECT
delete_student_select(t, c, student_id) ==
    /\ threads[t].pc = "idle"
    /\ UNCHANGED <<db, session, today>>
    /\ IF ~ is_logged_in(c)
       THEN /\ resp' = LoginRedirect("deleteStudent")
            /\ Return(t)
       ELSE LET found == StudentById(students, student_id)
            IN  IF found = {}
                THEN /\ resp' = AdminResp("deleteStudent", "NotFound", "danger",
                                          "admin_students")
                     /\ Return(t)
                ELSE \E student \in found :
                     /\ Proceed(t, "delete_student_rows", student, NoText, 0, 0)
                     /\ UNCHANGED resp

\* POST /admin/students/delete/<id>: the two DELETEs and their commit
delete_student_rows(t) ==
    LET self == threads[t]
    IN
    /\ self.pc = "delete_student_rows"
    /\ entries' = DeleteEntriesOf(entries, self.student_id)
    /\ students' = DeleteStudentRow(students, self.student_id)
    /\ resp' = [AdminResp("deleteStudent", "Ok", "success", "admin_students")
                    EXCEPT !.name = self.name]
    /\ Return(t)
    /\ UNCHANGED <<student_seq, entry_seq, session, today>>

\* ------------------------------------------------------------- environment
\* date.today() moves to the next calendar day
NextDay ==
    /\ today < MaxDay
    /\ today' = today + 1
    /\ UNCHANGED <<db, session, resp, threads>>

StudentIds == 1..(MaxStudentId + 1)

\* requests of the occupancy ledger: registration, deletion, and the check-in
\* and check-out of two students at two workstations, with every form filled
\* in and the login the admin requests need, while the date moves on
Next ==
    \/ \E f \in EntryInputs : student_entry(f[1], f[2])
    \/ \E r \in ExitInputs : student_exit(r)
    \/ \E c \in Clients : admin_login(c, "POST", ADMIN_USERNAME, ADMIN_PASSWORD)
    \/ \E c \in Clients, f \in AddInputs : admin_add_student(c, f[1], f[2], f[3])
    \/ \E c \in Clients, id \in StudentIds : admin_delete_student(c, id)
    \/ NextDay

Spec == Init /\ [][Next]_vars

\* every route of the application, with login and logout and with forms left
\* blank, over a ledger fed by the check-ins of one registration number
AdminRegInputs   == { <<"a">> }
AdminEntryInputs == { f \in EntryInputs : f[1] \in AdminRegInputs } \cup BlankEntryInputs
AdminExitInputs  == AdminRegInputs \cup BlankExitInputs
AdminAddInputs   ==
    { f \in AddInputs : NormRegNo(f[2]) \in { NormRegNo(r) : r \in AdminRegInputs } }
        \cup BlankAddInputs

NextAdmin ==
    \/ \E f \in AdminEntryInputs : student_entry(f[1], f[2])
    \/ \E r \in AdminExitInputs : student_exit(r)
    \/ \E c \in Clients, f \in LoginInputs : admin_login(c, f[1], f[2], f[3])
    \/ \E c \in Clients : admin_logout(c)
    \/ \E c \in Clients : admin_dashboard(c)
    \/ \E c \in Clients, f \in FilterDates : admin_entries(c, f)
    \/ \E c \in Clients : admin_students(c)
    \/ \E c \in Clients, f \in AdminAddInputs : admin_add_student(c, f[1], f[2], f[3])
    \/ \E c \in Clients, id \in StudentIds : admin_delete_student(c, id)
    \/ \E c \in Clients, f \in FilterDates : admin_export(c, f)
    \/ NextDay

SpecAdmin == Init /\ [][NextAdmin]_vars

\* the ledger of one workstation used by one of two registered students,
\* served at different clock readings
ClockTimes       == { 1, 2 }
ClockEntryInputs == { f \in EntryInputs : f[1] \in AdminRegInputs /\ f[2] = <<"2">> }
ClockAddInputs   == { f \in AddInputs : f[2] \in AdminRegInputs }
ClockAddTwoInputs == { f \in AddInputs : f[2] \in { <<"a">>, <<" ", "b">> } }

NextClock ==
    \/ \E f \in ClockEntryInputs, now \in ClockTimes :
           student_entry_at(f[1], f[2], now)
    \/ \E r \in ExitInputs, now \in ClockTimes : student_exit_at(r, now)
    \/ \E c \in Clients : admin_login(c, "POST", ADMIN_USERNAME, ADMIN_PASSWORD)
    \/ \E c \in Clients, f \in ClockAddTwoInputs :
           admin_add_student(c, f[1], f[2], f[3])
    \/ \E c \in Clients, id \in StudentIds : admin_delete_student(c, id)
    \/ NextDay

SpecClock == Init /\ [][NextClock]_vars

\* check-ins of two students, with forms filled in and left partly blank,
\* between registrations and deletions, while the date moves on
NextForms ==
    \/ \E f \in EntryInputs \cup BlankEntryInputs : student_entry(f[1], f[2])
    \/ \E c \in Clients : admin_login(c, "POST", ADMIN_USERNAME, ADMIN_PASSWORD)
    \/ \E c \in Clients, f \in AddInputs : admin_add_student(c, f[1], f[2], f[3])
    \/ \E c \in Clients, id \in StudentIds : admin_delete_student(c, id)
    \/ NextDay

SpecForms == Init /\ [][NextForms]_vars

\* the ledger of two students, with the dashboard looked at in between
NextDash ==
    \/ Next
    \/ \E c \in Clients : admin_dashboard(c)

SpecDash == Init /\ [][NextDash]_vars

\* check-ins of two students at one workstation, served by two threads one
\* statement at a time
RaceEntryInputs == { f \in EntryInputs : f[2] = <<"2">> }
RaceAddInputs   == { f \in AddInputs : f[2] \in { <<"a">>, <<" ", "b">> } }

NextRace ==
    \/ \E t \in Workers, f \in RaceEntryInputs : entry_student(t, f[1], f[2])
    \/ \E t \in Workers : entry_sys_busy(t)
    \/ \E t \in Workers : entry_open_entry(t)
    \/ \E t \in Workers, now \in Times : entry_insert(t, now)
    \/ \E c \in Clients : admin_login(c, "POST", ADMIN_USERNAME, ADMIN_PASSWORD)
    \/ \E c \in Clients, f \in RaceAddInputs :
           admin_add_student(c, f[1], f[2], f[3])

SpecRace == Init /\ [][NextRace]_vars

\* thread t may start the check-in f: no other thread is in the middle of a
\* check-in of the same student or to the same workstation
NoCheckInPair(t, f) ==
    \A u \in Workers \ {t} :
        threads[u].pc \in {"entry_sys_busy", "entry_open_entry", "entry_insert"}
        => /\ threads[u].system_no # NormSystemNo(f[2])
           /\ \A s \in StudentByRegNo(students, NormRegNo(f[1])) :
                  threads[u].student_id # s.id

\* check-ins, check-outs and deletions served by two threads one statement
\* at a time, without two overlapping check-ins of one student or to one
\* workstation
OverlapEntryInputs == { f \in EntryInputs : f[1] \in AdminRegInputs }

NextOverlap ==
    \/ \E t \in Workers, f \in OverlapEntryInputs :
           NoCheckInPair(t, f) /\ entry_student(t, f[1], f[2])
    \/ \E t \in Workers : entry_sys_busy(t)
    \/ \E t \in Workers : entry_open_entry(t)
    \/ \E t \in Workers, now \in Times : entry_insert(t, now)
    \/ \E t \in Workers, r \in AdminRegInputs : exit_student(t, r)
    \/ \E t \in Workers : exit_open_entry(t)
    \/ \E t \in Workers, now \in ClockTimes : exit_update(t, now)
    \/ \E t \in Workers, c \in Clients, id \in StudentIds :
           delete_student_select(t, c, id)
    \/ \E t \in Workers : delete_student_rows(t)
    \/ \E c \in Clients : admin_login(c, "POST", ADMIN_USERNAME, ADMIN_PASSWORD)
    \/ \E c \in Clients, f \in ClockAddInputs :
           admin_add_student(c, f[1], f[2], f[3])

SpecOverlap == Init /\ [][NextOverlap]_vars

\* the reporting routes over a ledger grown to the cap of the listing and
\* beyond: one student has checked in and out at one workstation ListSizes
\* times, the first ListSplits of them on day 1 and the others today, and is
\* still inside on the last entry; entry i was made at clock reading i
ListSizes  == { LIST_LIMIT, LIST_LIMIT + 1, LIST_LIMIT + 2 }
ListSplits == { 1, LIST_LIMIT }

ListEntry(i, split, size) ==
    LET opened == InsertEntry({}, i, 1, <<"2">>, i,
                              IF i <= split THEN 1 ELSE MaxDay)
    IN  CHOOSE e \in (IF i = size THEN opened ELSE SetTimeOut(opened, i, i)) : TRUE

InitList ==
    \E size \in ListSizes, split \in ListSplits :
        /\ students = InsertStudent({}, 1, <<"X">>, <<"A">>, <<"D">>)
        /\ student_seq = 1
        /\ entries = { ListEntry(i, split, size) : i \in 1..size }
        /\ entry_seq = size
        /\ session = [c \in Clients |-> FALSE]
        /\ today = MaxDay
        /\ resp = NoResp
        /\ threads = [t \in Workers |-> Idle]

NextList ==
    \/ \E r \in AdminRegInputs : student_exit(r)
    \/ \E c \in Clients : admin_login(c, "POST", ADMIN_USERNAME, ADMIN_PASSWORD)
    \/ \E c \in Clients : admin_logout(c)
    \/ \E c \in Clients, f \in FilterDates : admin_entries(c, f)
    \/ \E c \in Clients, id \in StudentIds : admin_delete_student(c, id)
    \/ \E c \in Clients, f \in FilterDates : admin_export(c, f)

SpecList == InitList /\ [][NextList]_vars

\* ================================================================= claims
\* vocabulary of the claims, stated on the tables alone
IsOpen(e) == e.time_out = NULL

OpenOfStudent(sid, d) ==
    {e \in entries : e.student_id = sid /\ e.date = d /\ IsOpen(e)}

OpenOnWorkstation(w, d) ==
    {e \in entries : e.system_no = w /\ e.date = d /\ IsOpen(e)}

Registered(raw_reg_no) ==
    {s \in students : s.reg_no = Upper(Strip(raw_reg_no))}

\* C1: for every student and every date at most one entry of that student
\* on that date has a null time-out.
C1_OneOpenEntryPerStudentAndDate ==
    \A e1, e2 \in entries :
        ( /\ e1.student_id = e2.student_id
          /\ e1.date = e2.date
          /\ IsOpen(e1) /\ IsOpen(e2) ) => e1.id = e2.id

\* a student holds an open entry next to a closed entry of the same date,
\* so a check-in of a student with earlier entries that day has been accepted
C1_Witness ==
    \E e1, e2 \in entries :
        /\ e1.student_id = e2.student_id /\ e1.date = e2.date
        /\ ~ IsOpen(e1) /\ IsOpen(e2)

\* C2: for every workstation and every date at most one entry on that
\* workstation and date has a null time-out.
C2_OneOpenEntryPerWorkstationAndDate ==
    \A e1, e2 \in entries :
        ( /\ e1.system_no = e2.system_no
          /\ e1.date = e2.date
          /\ IsOpen(e1) /\ IsOpen(e2) ) => e1.id = e2.id

\* a workstation hosts an open entry of one student next to a closed entry
\* of another student on the same date
C2_Witness ==
    \E e1, e2 \in entries :
        /\ e1.system_no = e2.system_no /\ e1.date = e2.date
        /\ e1.student_id # e2.student_id
        /\ ~ IsOpen(e1) /\ IsOpen(e2)

\* the last request was a successful check-in of student sid, today
JustCheckedIn(sid) ==
    /\ resp.op = "checkIn" /\ resp.status = "Ok"
    /\ \E e \in entries :
           e.id = resp.eid /\ e.student_id = sid /\ e.date = today /\ IsOpen(e)

\* C3 as stated: after a successful check-in of s, an immediately following
\* check-in of s on the same date fails with AlreadyCheckedIn and creates no
\* entry, whatever workstation it names (the one s took or any other).
C3_SecondCheckInAlwaysAlreadyCheckedIn ==
    [][ resp'.op = "checkIn" =>
        \A f \in EntryInputs : \A s \in Registered(f[1]) :
            ( /\ Strip(f[2]) # NoText
              /\ JustCheckedIn(s.id)
              /\ student_entry(f[1], f[2]) )
            => ( resp'.status = "AlreadyCheckedIn" /\ entries' = entries ) ]_vars

\* C3 (amended): a check-in of a registered student s at a workstation w,
\* neither having an open entry today, succeeds and adds one entry; an
\* immediately following check-in of s on the same date creates no entry and
\* fails with AlreadyCheckedIn when the workstation it names has no open entry
\* today, and with WorkstationOccupied when it has one (w itself included).
C3_CheckInOnceThenRefused ==
    [][ resp'.op = "checkIn" =>
        \A f \in EntryInputs : \A s \in Registered(f[1]) :
            ( Strip(f[2]) # NoText /\ student_entry(f[1], f[2]) )
            => /\ ( /\ OpenOfStudent(s.id, today) = {}
                    /\ OpenOnWorkstation(Strip(f[2]), today) = {} )
                  => ( /\ resp'.status = "Ok"
                       /\ entries \subseteq entries'
                       /\ Cardinality(entries') = Cardinality(entries) + 1 )
               /\ JustCheckedIn(s.id)
                  => ( /\ entries' = entries
                       /\ resp'.status =
                              IF OpenOnWorkstation(Strip(f[2]), today) # {}
                              THEN "WorkstationOccupied"
                              ELSE "AlreadyCheckedIn" ) ]_vars

\* a check-in was refused with AlreadyCheckedIn while the newest entry is an
\* open entry of today: the refused request followed that check-in
C3_Witness ==
    /\ resp.op = "checkIn" /\ resp.status = "AlreadyCheckedIn"
    /\ \E e \in entries :
           /\ e.id = entry_seq /\ e.date = today /\ IsOpen(e)
           /\ e.system_no = resp.system_no

\* C4: when workstation w has an open entry today held by student s, a
\* check-in to w by any other registered student t fails with
\* WorkstationOccupied, the notice names s, and no entry is created, whether
\* or not t has an open entry.
C4_OccupiedWorkstationRefused ==
    [][ resp'.op = "checkIn" =>
        \A f \in EntryInputs : \A t \in Registered(f[1]) :
        \A e \in OpenOnWorkstation(Strip(f[2]), today) :
            ( e.student_id # t.id /\ student_entry(f[1], f[2]) )
            => /\ resp'.status = "WorkstationOccupied"
               /\ \E s \in students : s.id = e.student_id /\ resp'.name = s.name
               /\ entries' = entries ]_vars

\* a check-in was refused with WorkstationOccupied while two students of
\* different names both hold open entries today, and the notice names the
\* holder of the requested workstation
C4_Witness ==
    /\ resp.op = "checkIn" /\ resp.status = "WorkstationOccupied"
    /\ \E e1, e2 \in entries : \E s1, s2 \in students :
           /\ e1.date = today /\ e2.date = today /\ IsOpen(e1) /\ IsOpen(e2)
           /\ s1.id = e1.student_id /\ s2.id = e2.student_id
           /\ s1.name # s2.name
           /\ e1.system_no = resp.system_no /\ resp.name = s1.name

\* C5: the workstation conflict is checked before the student conflict: when
\* the requested workstation has an open entry today and the requesting
\* student has one too, check-in answers WorkstationOccupied; it answers
\* AlreadyCheckedIn only when the requested workstation is free today.
C5_WorkstationCheckFirst ==
    [][ resp'.op = "checkIn" =>
        \A f \in EntryInputs : \A t \in Registered(f[1]) :
            student_entry(f[1], f[2])
            => /\ ( /\ OpenOnWorkstation(Strip(f[2]), today) # {}
                    /\ OpenOfStudent(t.id, today) # {} )
                  => resp'.status = "WorkstationOccupied"
               /\ resp'.status = "AlreadyCheckedIn"
                  => OpenOnWorkstation(Strip(f[2]), today) = {} ]_vars

\* the only registered student holds the workstation named in a
\* WorkstationOccupied notice: both conflicts were present at that request
C5_Witness ==
    /\ resp.op = "checkIn" /\ resp.status = "WorkstationOccupied"
    /\ Cardinality(students) = 1
    /\ \E e \in entries : \E s \in students :
           /\ e.student_id = s.id /\ e.date = today /\ IsOpen(e)
           /\ e.system_no = resp.system_no

\* the last request was a successful check-out that closed entry c, today
JustCheckedOut(c) ==
    /\ resp.op = "checkOut" /\ resp.status = "Ok"
    /\ c \in entries /\ c.id = resp.eid /\ c.date = today

\* the step adds exactly one entry: a new id, open, of student sid at
\* workstation w today; every earlier entry is kept as it was
AddsOpenEntry(sid, w) ==
    \E n \in entries' :
        /\ entries' = entries \cup {n}
        /\ n.id \notin {e.id : e \in entries}
        /\ n.student_id = sid /\ n.system_no = w /\ n.date = today
        /\ n.time_out = NULL

\* C6: a successful check-out of s leaves the closed entry with a non-null
\* time-out and frees both s and the workstation w; a following check-in of
\* s on the same date to any workstation free today succeeds with a new open
\* entry, the closed one unchanged, and a following check-in to w by any
\* registered student without an open entry succeeds.
C6_CheckOutThenCheckInAgain ==
    [][ /\ ( resp'.op = "checkOut" /\ resp'.status = "Ok" ) =>
            \A r \in ExitInputs : \A s \in Registered(r) :
                student_exit(r) =>
                    \A o \in OpenOfStudent(s.id, today) :
                        /\ \E c \in entries' : c.id = o.id /\ c.time_out # NULL
                        /\ OpenOfStudent(s.id, today)' = {}
                        /\ OpenOnWorkstation(o.system_no, today)' = {}
        /\ resp'.op = "checkIn" =>
            \A c \in entries : JustCheckedOut(c) =>
                \A f \in EntryInputs : \A t \in Registered(f[1]) :
                    ( /\ \/ ( /\ t.id = c.student_id
                              /\ OpenOnWorkstation(Strip(f[2]), today) = {} )
                         \/ ( /\ Strip(f[2]) = c.system_no
                              /\ OpenOfStudent(t.id, today) = {} )
                      /\ student_entry(f[1], f[2]) )
                    => ( /\ resp'.status = "Ok"
                         /\ AddsOpenEntry(t.id, Strip(f[2]))
                         /\ c \in entries' ) ]_vars

\* a student holds a closed entry and a newer open entry of today, and the
\* last request was the check-in that created the open one
C6_Witness ==
    /\ resp.op = "checkIn" /\ resp.status = "Ok"
    /\ \E c, n \in entries :
           /\ c.student_id = n.student_id /\ c.date = today /\ n.date = today
           /\ c.time_out # NULL /\ n.time_out = NULL
           /\ c.id < n.id /\ n.id = resp.eid

\* C7: check-out of a registered student without an open entry today fails
\* with NoOpenEntry and leaves students and entries unchanged; so does a
\* second check-out right after a successful one, which keeps the recorded
\* time-out.
C7_CheckOutWithoutOpenEntry ==
    [][ resp'.op = "checkOut" =>
        \A r \in ExitInputs : \A s \in Registered(r) :
            student_exit(r) =>
                /\ OpenOfStudent(s.id, today) = {}
                   => ( /\ resp'.status = "NoOpenEntry"
                        /\ students' = students /\ entries' = entries )
                /\ ( \E c \in entries : JustCheckedOut(c) /\ c.student_id = s.id )
                   => ( /\ resp'.status = "NoOpenEntry"
                        /\ students' = students /\ entries' = entries ) ]_vars

\* a check-out was refused with NoOpenEntry while some student has an entry
\* closed today and no open one
C7_Witness ==
    /\ resp.op = "checkOut" /\ resp.status = "NoOpenEntry"
    /\ \E c \in entries :
           /\ c.date = today /\ c.time_out # NULL
           /\ OpenOfStudent(c.student_id, today) = {}

\* C8: deleting an existing student removes that student and every entry
\* of that student and nothing else; deleting an unknown id fails with
\* NotFound and changes nothing.
C8_DeleteCascadesToOwnEntriesOnly ==
    [][ resp'.op = "deleteStudent" =>
        \A c \in Clients, id \in StudentIds :
            ( session[c] /\ admin_delete_student(c, id) ) =>
                IF \E s \in students : s.id = id
                THEN /\ resp'.status = "Ok"
                     /\ students' = {s \in students : s.id # id}
                     /\ entries' = {e \in entries : e.student_id # id}
                ELSE /\ resp'.status = "NotFound"
                     /\ students' = students /\ entries' = entries ]_vars

\* a student was deleted together with entries while another student and
\* that student's entries are still there
C8_Witness ==
    /\ resp.op = "deleteStudent" /\ resp.status = "Ok"
    /\ students # {} /\ entries # {}
    /\ Cardinality(entries) < entry_seq

UniqueNormalizedRegNo(S) ==
    \A s1, s2 \in S :
        Upper(Strip(s1.reg_no)) = Upper(Strip(s2.reg_no)) => s1 = s2

\* C9: registering, with name and department filled in, a registration
\* number that, trimmed and upper-cased, is that of an existing student fails
\* with DuplicateKey and leaves the students table unchanged; no two
\* students ever share a normalized registration number.
C9_DuplicateRegNoRejected ==
    [][ /\ students' # students => UniqueNormalizedRegNo(students')
        /\ resp'.op = "addStudent" =>
            \A c \in Clients, f \in AddInputs :
               ( /\ session[c]
                 /\ \E s \in students : s.reg_no = Upper(Strip(f[2]))
                 /\ admin_add_student(c, f[1], f[2], f[3]) )
               => ( resp'.status = "DuplicateKey" /\ students' = students ) ]_vars

\* a registration was refused with DuplicateKey while two students with
\* different registration numbers are in the table
C9_Witness ==
    /\ resp.op = "addStudent" /\ resp.status = "DuplicateKey"
    /\ Cardinality(students) = 2

\* a protected request of browser c
Protected(c) ==
    \/ admin_dashboard(c)
    \/ \E f \in FilterDates : admin_entries(c, f)
    \/ admin_students(c)
    \/ \E f \in AddInputs \cup BlankAddInputs :
           admin_add_student(c, f[1], f[2], f[3])
    \/ \E id \in StudentIds : admin_delete_student(c, id)
    \/ \E f \in FilterDates : admin_export(c, f)

\* C10: a protected request in a session whose admin flag is not set is
\* redirected to the login page and leaves students and entries unchanged;
\* the flag becomes set only by a login posting the configured username and
\* password, and logout clears it.
C10_ProtectedRequestsNeedLogin ==
    [][ \A c \in Clients :
            /\ ( ~ session[c] /\ Protected(c) )
               => ( /\ resp'.status = "LoginRequired"
                    /\ resp'.redirect = "admin_login"
                    /\ students' = students /\ entries' = entries
                    /\ ~ session'[c] )
            /\ ( ~ session[c] /\ session'[c] )
               => admin_login(c, "POST", ADMIN_USERNAME, ADMIN_PASSWORD)
            /\ admin_logout(c) => ~ session'[c] ]_vars

\* a deletion was refused for want of a login while students and entries
\* exist: the session had been logged in and was logged out again
C10_Witness ==
    /\ resp.op = "deleteStudent" /\ resp.status = "LoginRequired"
    /\ \A c \in Clients : ~ session[c]
    /\ students # {} /\ entries # {}

\* C11: a successful check-out served at clock reading now sets the time-out
\* of the student's open entry of today to now, and its success notice
\* carries now and the workstation of the entry that was closed.
C11_CheckOutReportsTimeAndWorkstation ==
    [][ ( resp'.op = "checkOut" /\ resp'.status = "Ok" ) =>
        \A r \in AdminRegInputs, now \in ClockTimes : \A s \in Registered(r) :
            student_exit_at(r, now) =>
                \A o \in OpenOfStudent(s.id, today) :
                    /\ \E c \in entries' : c.id = o.id /\ c.time_out = now
                    /\ resp'.time = now
                    /\ resp'.system_no = o.system_no ]_vars

\* the entries a report with date filter f selects (0: no filter)
Selected(f) == {e \in entries : f # 0 => e.date = f}

\* the columns of entry e in the listing and in the export
ListColumns(e) ==
    LET s == CHOOSE x \in students : x.id = e.student_id
    IN  [id |-> e.id, name |-> s.name, reg_no |-> s.reg_no, dept |-> s.dept,
         lab_name |-> <<"C", "L">>, system_no |-> e.system_no,
         time_in |-> e.time_in, time_out |-> e.time_out, date |-> e.date]

ExportColumns(e) ==
    LET s == CHOOSE x \in students : x.id = e.student_id
    IN  <<s.name, s.reg_no, s.dept, <<"C", "L">>, e.system_no,
          e.time_in, e.time_out, e.date>>

Descending(ids) == \A i \in 1..(Len(ids) - 1) : ids[i] > ids[i + 1]

\* rows are the listing rows of exactly the entries X, greatest id first
ListIs(rows, X) ==
    /\ Len(rows) = Cardinality(X)
    /\ \A i \in 1..Len(rows) : \E e \in X : rows[i] = ListColumns(e)
    /\ Descending([i \in 1..Len(rows) |-> rows[i].id])

\* rows are the listing rows of the cap entries of X with the greatest ids
\* (of all of X when it has no more than cap), greatest id first
ListIsTop(rows, X, cap) ==
    /\ Len(rows) = IF Cardinality(X) <= cap THEN Cardinality(X) ELSE cap
    /\ \A i \in 1..Len(rows) : \E e \in X : rows[i] = ListColumns(e)
    /\ Descending([i \in 1..Len(rows) |-> rows[i].id])
    /\ \A e \in X :
           ( \A i \in 1..Len(rows) : rows[i].id # e.id )
           => \A i \in 1..Len(rows) : e.id < rows[i].id

\* rows are the export rows of exactly the entries X, greatest id first
\* (entries are told apart by their columns)
ExportIs(rows, X) ==
    /\ Len(rows) = Cardinality(X)
    /\ \A i \in 1..Len(rows) : \E e \in X : rows[i] = ExportColumns(e)
    /\ Descending([i \in 1..Len(rows) |->
                       (CHOOSE e \in X : rows[i] = ExportColumns(e)).id])

\* C12: for a logged-in admin, the export with date filter d holds exactly
\* the entries dated d, and without a filter every entry, also when there
\* are more than 200; the listing without a filter holds only the 200
\* entries with the greatest ids, and with a filter d exactly the entries
\* dated d, as the export does; both are ordered by descending entry id.
C12_ExportUnboundedListingCapped ==
    [][ \A c \in Clients, f \in FilterDates :
            /\ ( session[c] /\ resp'.op = "export" /\ admin_export(c, f) )
               => ExportIs(resp'.rows, Selected(f))
            /\ ( session[c] /\ resp'.op = "listEntries" /\ admin_entries(c, f) )
               => IF f = 0 THEN ListIsTop(resp'.rows, Selected(0), 200)
                           ELSE ListIs(resp'.rows, Selected(f)) ]_vars

\* an export without a filter returned more than 200 rows
C12_Witness ==
    /\ resp.op = "export" /\ resp.status = "Ok"
    /\ Len(resp.rows) > 200
    /\ Len(resp.rows) = Cardinality(entries)

\* C13: the dashboard shown to a logged-in admin reports, as "today", the
\* number of entries dated today, as "currently inside", the number of
\* entries dated today with null time-out, and as student count the number
\* of registered students.
C13_DashboardCountsMatchLedger ==
    [][ resp'.op = "dashboard" =>
        \A c \in Clients :
            ( session[c] /\ admin_dashboard(c) ) =>
                /\ resp'.counts[1] = Cardinality({e \in entries : e.date = today})
                /\ resp'.counts[2] =
                       Cardinality({e \in entries : e.date = today /\ IsOpen(e)})
                /\ resp'.counts[3] = Cardinality(students) ]_vars

\* the dashboard was shown with two students registered, an entry left open
\* on an earlier day and an entry of today already closed: one entry today,
\* nobody inside
C13_Witness ==
    /\ resp.op = "dashboard" /\ resp.status = "Ok"
    /\ resp.counts = <<1, 0, 2>>
    /\ \E e \in entries : e.date < today /\ IsOpen(e)
    /\ \E e \in entries : e.date = today /\ ~ IsOpen(e)

\* C14: with check-ins served concurrently, one statement at a time, there
\* is in every reachable state at most one open entry per workstation and
\* date and at most one open entry per student and date.
C14_NoDoubleBookingUnderInterleaving ==
    /\ \A e1, e2 \in entries :
           ( /\ IsOpen(e1) /\ IsOpen(e2)
             /\ e1.system_no = e2.system_no /\ e1.date = e2.date ) => e1 = e2
    /\ \A e1, e2 \in entries :
           ( /\ IsOpen(e1) /\ IsOpen(e2)
             /\ e1.student_id = e2.student_id /\ e1.date = e2.date ) => e1 = e2

\* C15: with requests served concurrently, one statement at a time, and no
\* two overlapping check-ins of the same student or to the same workstation,
\* no step leads to a state with two open entries of a student or of a
\* workstation on one date or with an entry whose student does not exist,
\* and no step changes a time-out that is already written.
C15_OnlyCheckInPairsBreakInvariants ==
    [][ /\ C14_NoDoubleBookingUnderInterleaving'
        /\ \A e \in entries' : \E s \in students' : s.id = e.student_id
        /\ \A e \in entries : \A e2 \in entries' :
               ( e2.id = e.id /\ e.time_out # NULL ) => e2.time_out = e.time_out
      ]_vars

\* C16: in every step of requests served one after the other, an entry that
\* is new is open; an entry that stays keeps its student id, lab name,
\* workstation, time-in and date, and its time-out changes only from null to
\* the clock reading of a check-out of its owning student; an entry
\* disappears only in a deleteStudent of its owning student.
C16_EntryLifecycle ==
    [][ /\ \A n \in entries' :
               n.id \notin {e.id : e \in entries} => n.time_out = NULL
        /\ \A e \in entries :
               LET after == {n \in entries' : n.id = e.id}
               IN  IF after = {}
                   THEN \E c \in Clients :
                            session[c] /\ admin_delete_student(c, e.student_id)
                   ELSE \A n \in after :
                        /\ n.student_id = e.student_id
                        /\ n.lab_name = e.lab_name
                        /\ n.system_no = e.system_no
                        /\ n.time_in = e.time_in
                        /\ n.date = e.date
                        /\ n.time_out # e.time_out =>
                               /\ e.time_out = NULL
                               /\ \E r \in ExitInputs, now \in ClockTimes :
                                      /\ \E s \in Registered(r) : s.id = e.student_id
                                      /\ student_exit_at(r, now)
                                      /\ n.time_out = now
      ]_vars

\* the other student was deleted and the entry of the student who stays,
\* closed at one clock reading and followed by a newer entry, is still there
C16_Witness ==
    /\ resp.op = "deleteStudent" /\ resp.status = "Ok"
    /\ Cardinality(students) = 1
    /\ \E e, n \in entries :
           /\ e.time_out \in ClockTimes /\ e.id < n.id
           /\ \E s \in students : s.id = e.student_id

\* C17: after every step of requests served one after the other, every
\* entry's student id is the id of an existing student; a student that is
\* new has an id greater than every id issued before, and no entry carries
\* that id.
C17_NoOrphansNoIdReuse ==
    [][ /\ \A e \in entries' : \E s \in students' : s.id = e.student_id
        /\ \A s \in students' : s.id <= student_seq'
        /\ student_seq' >= student_seq
        /\ \A n \in students' :
               n.id \notin {s.id : s \in students}
               => /\ n.id > student_seq
                  /\ \A e \in entries' : e.student_id # n.id ]_vars

\* a student with entries was deleted, which removed the entries, and the
\* student registered afterwards has checked in
C17_Witness ==
    /\ Cardinality(students) < student_seq
    /\ Cardinality(entries) < entry_seq
    /\ \E s \in students, e \in entries :
           s.id = student_seq /\ e.student_id = s.id

\* C18: a check-in changes no student; it answers ValidationError when the
\* registration number or the workstation is empty, else NotFound when the
\* number is unknown, else Ok, WorkstationOccupied or AlreadyCheckedIn; when
\* it answers Ok it adds exactly one entry, of the looked-up student at the
\* given workstation, with lab name "Computer Lab", null time-out and
\* today's date, and changes no other entry; otherwise it leaves the
\* entries unchanged.
C18_CheckInFrame ==
    [][ resp'.op = "checkIn" =>
        \A f \in EntryInputs \cup BlankEntryInputs :
            student_entry(f[1], f[2]) =>
                LET reg_no    == Upper(Strip(f[1]))
                    system_no == Strip(f[2])
                    known     == {s \in students : s.reg_no = reg_no}
                IN
                /\ students' = students
                /\ IF reg_no = NoText \/ system_no = NoText
                   THEN resp'.status = "ValidationError"
                   ELSE IF known = {}
                   THEN resp'.status = "NotFound"
                   ELSE resp'.status \in
                            {"Ok", "WorkstationOccupied", "AlreadyCheckedIn"}
                /\ IF resp'.status = "Ok"
                   THEN \E s \in known :
                        /\ AddsOpenEntry(s.id, system_no)
                        /\ \A n \in entries' \ entries : n.lab_name = <<"C", "L">>
                   ELSE entries' = entries ]_vars

\* a check-in with an unknown registration number was answered NotFound
\* while the other student holds a workstation today
C18_Witness ==
    /\ resp.op = "checkIn" /\ resp.status = "NotFound"
    /\ Cardinality(students) = 1
    /\ \E e \in entries : IsOpen(e) /\ e.date = today

\* an entry left open on a day before today
Stale(e) == IsOpen(e) /\ e.date < today

\* C19: an entry left open on an earlier day stays open in every step that
\* keeps it; a check-out of its student answers NoOpenEntry and changes
\* nothing unless the student has an open entry of today, which is then the
\* one that is closed; and a check-in of its student, or to its workstation,
\* succeeds when the student and the workstation have no open entry today.
C19_ConflictsScopedToToday ==
    [][ /\ \A e \in entries : \A n \in entries' :
               ( Stale(e) /\ n.id = e.id ) => n = e
        /\ resp'.op = "checkOut" =>
            \A r \in ExitInputs : \A s \in Registered(r) :
                ( /\ \E e \in entries : Stale(e) /\ e.student_id = s.id
                  /\ student_exit(r) )
                => IF OpenOfStudent(s.id, today) = {}
                   THEN resp'.status = "NoOpenEntry" /\ entries' = entries
                   ELSE /\ resp'.status = "Ok"
                        /\ OpenOfStudent(s.id, today)' = {}
        /\ resp'.op = "checkIn" =>
            \A f \in EntryInputs : \A s \in Registered(f[1]) :
                ( /\ \E e \in entries :
                         /\ Stale(e)
                         /\ e.student_id = s.id \/ e.system_no = Strip(f[2])
                  /\ OpenOfStudent(s.id, today) = {}
                  /\ OpenOnWorkstation(Strip(f[2]), today) = {}
                  /\ student_entry(f[1], f[2]) )
                => resp'.status = "Ok" /\ AddsOpenEntry(s.id, Strip(f[2])) ]_vars

\* one student holds open entries on two different dates at the same
\* workstation
C19_Witness ==
    \E e, n \in entries :
        /\ Stale(e) /\ IsOpen(n) /\ n.date = today
        /\ e.student_id = n.student_id /\ e.system_no = n.system_no

====
